---- MODULE Spec2Model ----
(***************************************************************************)
(* A model of extract_formants.py: the per-file sampling function          *)
(* extract_formants_from_file and the batch driver main.                   *)
(*                                                                         *)
(* File names, tier names and speaker names are sequences of one-character *)
(* strings, so that split(), "in", endswith() and splitext() are computed. *)
(* Interval labels and the --phones values are plain strings: the code     *)
(* only compares them and tests their truth value.                         *)
(* Times are integers; a sample point is the numerator of a fraction over  *)
(* PointDen, and a sampled time is kept multiplied by PointDen.            *)
(* Python's None is Absent (the empty tuple) and a present optional value  *)
(* v is <<v>>.                                                             *)
(***************************************************************************)
EXTENDS Integers, Sequences, FiniteSets, Bags, TLC

VARIABLES
    \* ---- the run of extract_formants_from_file (SpecExtract) ----
    x_pc,        \* "ready" | "done"
    x_args,      \* the call's arguments and what the collaborators return
    formant_list,\* the returned list of records
    \* ---- the run of main (Spec) ----
    pc,          \* position in main
    args,        \* the parsed command line
    fs,          \* the input directories and what each file parses to
    out_dir,     \* the output folder: "missing" | "preexisting" | "created"
    out_files,   \* output file name -> [header, rows] as written so far
    matched_files,
    pending,     \* matched files not yet processed
    processed,   \* matched files in the order processed
    all_data,    \* separate mode: the accumulated records
    fieldnames,  \* Absent, or <<the DictWriter's fieldnames>>
    handed,      \* the records handed to a DictWriter: [out, rec, ok]
    todo_speakers\* separate mode: speakers whose file is still to be written

xvars == <<x_pc, x_args, formant_list>>
mvars == <<pc, args, fs, out_dir, out_files, matched_files, pending,
           processed, all_data, fieldnames, handed, todo_speakers>>
vars == <<x_pc, x_args, formant_list, pc, args, fs, out_dir, out_files,
          matched_files, pending, processed, all_data, fieldnames, handed,
          todo_speakers>>

-----------------------------------------------------------------------------
(* Bounds of the model *)

MaxIntervals == 3
MaxTiers == 2
PointDen == 2

-----------------------------------------------------------------------------
(* Python values *)

Absent == <<>>
Some(v) == <<v>>

\* Python truth value of an optional label: None and "" are false.
Truthy(opt) == opt # Absent /\ opt[1] # ""

NaN == -1

\* str in str
IsSubstring(s, t) ==
    \E i \in 0..(Len(t) - Len(s)) : SubSeq(t, i + 1, i + Len(s)) = s

EndsWith(t, suf) ==
    Len(suf) <= Len(t) /\ SubSeq(t, Len(t) - Len(suf) + 1, Len(t)) = suf

RECURSIVE DropSpaces(_)
DropSpaces(s) ==
    IF s # <<>> /\ Head(s) = " " THEN DropSpaces(Tail(s)) ELSE s

RECURSIVE TakeToken(_)
TakeToken(s) ==
    IF s = <<>> \/ Head(s) = " " THEN <<>>
    ELSE <<Head(s)>> \o TakeToken(Tail(s))

\* str.split()[0]: the first whitespace-delimited token
SplitFirst(s) == TakeToken(DropSpaces(s))

\* os.path.splitext(name)[0] of a name without directory part: cut at the
\* last dot, unless only dots precede it.
SplitExtRoot(name) ==
    LET dots == {i \in 1..Len(name) : name[i] = "."}
    IN  IF dots = {} THEN name
        ELSE LET d == CHOOSE i \in dots : \A j \in dots : j <= i
             IN  IF \E j \in 1..(d - 1) : name[j] # "."
                 THEN SubSeq(name, 1, d - 1)
                 ELSE name

\* os.path.join(dir, f) and os.path.basename of such a path
PathJoin(dir, f) == <<dir, f>>
Basename(path) == path[2]

PHONES_MARK == <<"p", "h", "o", "n", "e", "s">>
WAV_EXT == <<".", "w", "a", "v">>
TEXTGRID_EXT == <<".", "T", "e", "x", "t", "G", "r", "i", "d">>

\* f"F{n}" and f"following_F{n}"
FKey(n) == "F" \o ToString(n)
FollowingFKey(n) == "following_F" \o ToString(n)

-----------------------------------------------------------------------------
(* dict: insertion-ordered keys and a value for each *)

KeySet(d) == {d.keys[i] : i \in 1..Len(d.keys)}

DictPut(d, k, v) ==
    IF k \in KeySet(d)
    THEN [keys |-> d.keys, val |-> [kk \in KeySet(d) |-> IF kk = k THEN v ELSE d.val[kk]]]
    ELSE [keys |-> Append(d.keys, k),
          val |-> [kk \in KeySet(d) \cup {k} |-> IF kk = k THEN v ELSE d.val[kk]]]

-----------------------------------------------------------------------------
(* The collaborators *)

\* formants.get_value_at_time(n, t): a frequency, or NaN where the track has
\* a gap. t is a sampled time (multiplied by PointDen).
GetValueAtTime(track, n, t) ==
    IF t \in track.gaps THEN NaN ELSE track.base + 1000 * n + t

\* interval.containsvowel(): a predicate of the alignment library
ContainsVowel(vowels, text) == text \in vowels

-----------------------------------------------------------------------------
(* extract_formants_from_file *)

\* Selection without the exclusion of the silence label.
Selected_NoSilExclusion(text, phones, vowels) ==
    \/ text \in phones
    \/ /\ "ALL_VOWELS" \in phones
       /\ ContainsVowel(vowels, text)

\* The selection test of one interval.
Selected(text, phones, vowels) ==
    \/ text \in phones
    \/ /\ "ALL_VOWELS" \in phones
       /\ ContainsVowel(vowels, text)
       /\ text # "sil"

\* An empty preceding label reported as absent.
PrecedingPhone_EmptyAsAbsent(tier, i) ==
    IF i > 1 /\ tier[i - 1].text # "" THEN Some(tier[i - 1].text) ELSE Absent

PrecedingPhone(tier, i) == IF i > 1 THEN Some(tier[i - 1].text) ELSE Absent

FollowingPhone(tier, i) == IF i < Len(tier) THEN Some(tier[i + 1].text) ELSE Absent

\* xmin + (xmax - xmin) * point, multiplied by PointDen
TimePoint(interval, point) ==
    interval.xmin * PointDen + (interval.xmax - interval.xmin) * point

RECURSIVE PutFormants(_, _, _, _, _)
PutFormants(d, track, desired_formants, t, following) ==
    IF desired_formants = <<>> THEN d
    ELSE LET n == Head(desired_formants)
             k == IF following THEN FollowingFKey(n) ELSE FKey(n)
         IN  PutFormants(DictPut(d, k, GetValueAtTime(track, n, t)),
                         track, Tail(desired_formants), t, following)

\* Whether the following phone is sampled.
SamplesFollowing(tier, i, include_following) ==
    /\ include_following
    /\ Truthy(FollowingPhone(tier, i))
    /\ i + 1 <= Len(tier)

BaseDict(file, speaker, tier, i, point) ==
    [keys |-> <<"file", "speaker", "phone", "preceding_phone",
                "following_phone", "point", "interval_start", "interval_end">>,
     val |-> [file |-> file,
              speaker |-> speaker,
              phone |-> tier[i].text,
              preceding_phone |-> PrecedingPhone(tier, i),
              following_phone |-> FollowingPhone(tier, i),
              point |-> point,
              interval_start |-> tier[i].xmin,
              interval_end |-> tier[i].xmax]]

\* The record of one selected interval and one point.
FormantDict(file, speaker, tier, i, point, track, desired_formants, include_following) ==
    LET d1 == PutFormants(BaseDict(file, speaker, tier, i, point), track,
                          desired_formants, TimePoint(tier[i], point), FALSE)
    IN  IF SamplesFollowing(tier, i, include_following)
        THEN PutFormants(d1, track, desired_formants,
                         TimePoint(tier[i + 1], point), TRUE)
        ELSE d1

\* Records with an undefined formant value dropped.
Defined(d) == \A n \in 1..4 : FKey(n) \in KeySet(d) => d.val[FKey(n)] # NaN

RECURSIVE TierRecords_DropUndefined(_, _, _, _, _, _, _, _, _, _)
TierRecords_DropUndefined(file, speaker, tier, i, phones, vowels, points, track, desired_formants, include_following) ==
    IF i > Len(tier) THEN <<>>
    ELSE (IF Selected(tier[i].text, phones, vowels)
          THEN SelectSeq([j \in 1..Len(points) |->
                            FormantDict(file, speaker, tier, i, points[j], track,
                                        desired_formants, include_following)],
                         Defined)
          ELSE <<>>)
         \o TierRecords_DropUndefined(file, speaker, tier, i + 1, phones, vowels,
                                      points, track, desired_formants,
                                      include_following)

\* The records of the intervals i..Len(tier) of one resolved tier.
RECURSIVE TierRecords(_, _, _, _, _, _, _, _, _, _)
TierRecords(file, speaker, tier, i, phones, vowels, points, track, desired_formants, include_following) ==
    IF i > Len(tier) THEN <<>>
    ELSE (IF Selected(tier[i].text, phones, vowels)
          THEN [j \in 1..Len(points) |->
                   FormantDict(file, speaker, tier, i, points[j], track,
                               desired_formants, include_following)]
          ELSE <<>>)
         \o TierRecords(file, speaker, tier, i + 1, phones, vowels, points,
                        track, desired_formants, include_following)

\* Whether a tier is one the file's records come from.
TierResolved(tier_name, filename) ==
    /\ IsSubstring(PHONES_MARK, tier_name)
    /\ IsSubstring(SplitFirst(tier_name), filename)

\* a is [audio_file_path, textgrid_file_path, phones, desired_formants,
\* points, include_following]; grid and track are what the alignment parser
\* and the formant estimator return for the two paths.
RECURSIVE GridRecords(_, _, _, _, _)
GridRecords(a, grid, track, vowels, t) ==
    IF t > Len(grid) THEN <<>>
    ELSE (IF TierResolved(grid[t].name, Basename(a.textgrid_file_path))
          THEN TierRecords(SplitExtRoot(Basename(a.audio_file_path)),
                           SplitFirst(grid[t].name), grid[t].intervals, 1,
                           a.phones, vowels, a.points, track,
                           a.desired_formants, a.include_following)
          ELSE <<>>)
         \o GridRecords(a, grid, track, vowels, t + 1)

ExtractFormantsFromFile(a, grid, track, vowels) ==
    GridRecords(a, grid, track, vowels, 1)

-----------------------------------------------------------------------------
(* Inputs of the model *)

TierName_A_phones == <<"A", " ", "-", " ", "p", "h", "o", "n", "e", "s">>
TierName_B_phones == <<"B", " ", "-", " ", "p", "h", "o", "n", "e", "s">>
TierName_A_words == <<"A", " ", "-", " ", "w", "o", "r", "d", "s">>
TierName_Grid_phones == <<"G", "r", "i", "d", " ", "p", "h", "o", "n", "e", "s">>
TierName_phones == <<" ", "p", "h", "o", "n", "e", "s">>

TierNames == {TierName_A_phones, TierName_B_phones, TierName_A_words,
              TierName_Grid_phones, TierName_phones}

Name_A1 == <<"A", "1">>
Name_B2 == <<"B", "2">>
Name_AB3 == <<"A", "B", "3">>
BaseNames == {Name_A1, Name_B2, Name_AB3}

Labels == {"a", "t", "sil", ""}

SeqsUpTo(S, n) == UNION {[1..m -> S] : m \in 0..n}

\* Interval k of a tier spans Boundary(k - 1) .. Boundary(k): contiguous
\* intervals of durations 1, 2, 3, ...
Boundary(k) == (k * (k + 1)) \div 2

MakeTier(labels) ==
    [k \in 1..Len(labels) |->
        [text |-> labels[k], xmin |-> Boundary(k - 1), xmax |-> Boundary(k)]]

TierContents == {MakeTier(ls) : ls \in SeqsUpTo(Labels, MaxIntervals)}

\* A track without gaps, and one undefined at every third sampled time.
Tracks == {[base |-> 100, gaps |-> {}],
           [base |-> 100,
            gaps |-> {t \in 0..(PointDen * Boundary(MaxIntervals + 1)) : t % 3 = 1}]}

VowelSets == {{"a"}, {"a", "sil"}}

PhoneOptions == {{"a"}, {"ALL_VOWELS"}, {"ALL_VOWELS", "sil"}, {"t", ""}}

FormantOptions == {<<1>>, <<2, 1>>, <<3, 3>>}

\* Points in any order, with duplicates.
PointOptions == {<<1>>, <<PointDen, 0>>, <<1, 0, 1>>}

ExtractArgs(base, phones, desired_formants, points, include_following) ==
    [audio_file_path |-> PathJoin("audio", base \o WAV_EXT),
     textgrid_file_path |-> PathJoin("textgrids", base \o TEXTGRID_EXT),
     phones |-> phones,
     desired_formants |-> desired_formants,
     points |-> points,
     include_following |-> include_following]

-----------------------------------------------------------------------------
(* Specification of one call of extract_formants_from_file *)

MainIdle ==
    /\ pc = "idle"
    /\ args = <<>>
    /\ fs = <<>>
    /\ out_dir = "missing"
    /\ out_files = <<>>
    /\ matched_files = {}
    /\ pending = {}
    /\ processed = <<>>
    /\ all_data = <<>>
    /\ fieldnames = Absent
    /\ handed = <<>>
    /\ todo_speakers = <<>>

\* One phonetic tier of the file's speaker, any content, any options.
InitExtract ==
    /\ x_pc = "ready"
    /\ formant_list = <<>>
    /\ \E c \in TierContents, ph \in PhoneOptions, fo \in FormantOptions,
          po \in PointOptions, inc \in BOOLEAN, tr \in Tracks, vs \in VowelSets :
          x_args = [a |-> ExtractArgs(Name_A1, ph, fo, po, inc),
                    grid |-> <<[name |-> TierName_A_phones, intervals |-> c]>>,
                    track |-> tr,
                    vowels |-> vs]
    /\ MainIdle

\* Several tiers with distinct names (the grid is a dict keyed by tier name).
InitResolve ==
    /\ x_pc = "ready"
    /\ formant_list = <<>>
    /\ \E names \in SeqsUpTo(TierNames, MaxTiers), base \in BaseNames,
          po \in PointOptions, inc \in BOOLEAN :
          /\ \A i, j \in 1..Len(names) : names[i] = names[j] => i = j
          /\ x_args = [a |-> ExtractArgs(base, {"a"}, <<1>>, po, inc),
                       grid |-> [t \in 1..Len(names) |->
                                    [name |-> names[t],
                                     intervals |-> MakeTier(<<"t", "a">>)]],
                       track |-> [base |-> 100, gaps |-> {}],
                       vowels |-> {"a"}]
    /\ MainIdle

Extract ==
    /\ x_pc = "ready"
    /\ formant_list' = ExtractFormantsFromFile(x_args.a, x_args.grid,
                                               x_args.track, x_args.vowels)
    /\ x_pc' = "done"
    /\ UNCHANGED <<x_args, mvars>>

NextExtract == Extract

SpecExtract == InitExtract /\ [][NextExtract]_vars

SpecResolve == InitResolve /\ [][NextExtract]_vars

-----------------------------------------------------------------------------
(* Properties of extract_formants_from_file.  Under SpecExtract the grid   *)
(* has one tier, which is resolved; its intervals have distinct start      *)
(* times, so a record's interval_start names the interval it was built     *)
(* from.                                                                    *)

XDone == x_pc = "done"
XTier == x_args.grid[1].intervals
XPoints == x_args.a.points
XRecords == {formant_list[j] : j \in 1..Len(formant_list)}

IntervalIndex(tier, r) ==
    CHOOSE k \in 1..Len(tier) : tier[k].xmin = r.val.interval_start

\* The selection criteria as the data model states them.
MatchesCriteria(text) ==
    \/ text \in x_args.a.phones
    \/ /\ "ALL_VOWELS" \in x_args.a.phones
       /\ text # "sil"
       /\ text \in x_args.vowels

RECURSIVE Matching(_, _)
Matching(tier, k) ==
    IF k > Len(tier) THEN <<>>
    ELSE (IF MatchesCriteria(tier[k].text) THEN <<k>> ELSE <<>>)
         \o Matching(tier, k + 1)

HasFollowingKeys(r) ==
    \E n \in 1..4 : FollowingFKey(n) \in KeySet(r)

\* C4: with include_following, every record of an interval that has a
\* successor carries following_F<n> for every requested n, sampled at
\* successor.start + (successor.end - successor.start) * point, whatever the
\* successor's label; a record of the tier's last interval carries no
\* following_F<n>.
C4_FollowingSampledWheneverSuccessor ==
    XDone =>
        \A r \in XRecords :
            LET k == IntervalIndex(XTier, r)
            IN  /\ (x_args.a.include_following /\ k < Len(XTier)) =>
                     \A m \in 1..Len(x_args.a.desired_formants) :
                        LET n == x_args.a.desired_formants[m]
                        IN  /\ FollowingFKey(n) \in KeySet(r)
                            /\ r.val[FollowingFKey(n)] =
                                 GetValueAtTime(x_args.track, n,
                                     XTier[k + 1].xmin * PointDen
                                     + (XTier[k + 1].xmax - XTier[k + 1].xmin)
                                       * r.val.point)
                /\ (k = Len(XTier)) => ~HasFollowingKeys(r)

\* C5: a record of interval k reports the label of interval k-1 as
\* preceding_phone, absent iff k is the first, and the label of interval k+1
\* as following_phone, absent iff k is the last; absent differs from the
\* empty label.
C5_IntervalAdjacency ==
    XDone =>
        \A r \in XRecords :
            LET k == IntervalIndex(XTier, r)
            IN  /\ r.val.phone = XTier[k].text
                /\ r.val.preceding_phone =
                     (IF k = 1 THEN Absent ELSE <<XTier[k - 1].text>>)
                /\ r.val.following_phone =
                     (IF k = Len(XTier) THEN Absent ELSE <<XTier[k + 1].text>>)
                /\ (r.val.preceding_phone = Absent <=> k = 1)
                /\ (r.val.following_phone = Absent <=> k = Len(XTier))
                /\ (k > 1 /\ XTier[k - 1].text = "") =>
                      (r.val.preceding_phone = Some("") /\ Some("") # Absent)

\* A first, a middle and a last interval were selected, with an empty label
\* next to the middle one.
C5_Witness ==
    /\ XDone
    /\ Len(XTier) = 3
    /\ \E r \in XRecords : r.val.preceding_phone = Absent
    /\ \E r \in XRecords : r.val.following_phone = Absent
    /\ \E r \in XRecords : /\ r.val.preceding_phone = Some("")
                           /\ r.val.following_phone # Absent

\* C6: M matching intervals and P points give exactly M * P records, one
\* per (matching interval, point), intervals in tier order and points in the
\* order given.
C6_RowCount ==
    XDone =>
        LET sel == Matching(XTier, 1)
            P == Len(XPoints)
        IN  /\ Len(formant_list) = Len(sel) * P
            /\ \A m \in 1..Len(sel) : \A j \in 1..P :
                  LET r == formant_list[(m - 1) * P + j]
                  IN  /\ r.val.interval_start = XTier[sel[m]].xmin
                      /\ r.val.interval_end = XTier[sel[m]].xmax
                      /\ r.val.point = XPoints[j]

\* Two matching intervals, duplicate points, an undefined formant value and
\* a record without successor.
C6_Witness ==
    /\ XDone
    /\ Len(Matching(XTier, 1)) >= 2
    /\ \E i, j \in 1..Len(XPoints) : i # j /\ XPoints[i] = XPoints[j]
    /\ \E r \in XRecords : \E n \in 1..4 :
          FKey(n) \in KeySet(r) /\ r.val[FKey(n)] = NaN
    /\ \E r \in XRecords : r.val.following_phone = Absent
    /\ Len(formant_list) >= 6

\* C7 as stated: with ALL_VOWELS among the phones, no record has phone "sil",
\* whatever else the phones contain.
C7_NoSilUnderAllVowels ==
    (XDone /\ "ALL_VOWELS" \in x_args.a.phones) =>
        \A r \in XRecords : r.val.phone # "sil"

\* C7 amended: with ALL_VOWELS among the phones and "sil" not itself among
\* them, no record has phone "sil", whatever the vowel predicate returns.
C7_NoSilUnlessExplicit ==
    (XDone /\ "ALL_VOWELS" \in x_args.a.phones /\ "sil" \notin x_args.a.phones) =>
        \A r \in XRecords : r.val.phone # "sil"

\* The vowel predicate holds of "sil", a "sil" interval is in the tier, and
\* other intervals were selected.
C7_Witness ==
    /\ XDone
    /\ "ALL_VOWELS" \in x_args.a.phones
    /\ "sil" \notin x_args.a.phones
    /\ ContainsVowel(x_args.vowels, "sil")
    /\ \E k \in 1..Len(XTier) : XTier[k].text = "sil"
    /\ formant_list # <<>>

\* C9: the records come from exactly the tiers whose name contains the
\* phone-level marker and whose first token is a substring of the file's base
\* name, extension stripped; each such tier's records carry its token as
\* speaker.  (Under SpecResolve every tier holds one matching interval.)
ClaimedTier(name) ==
    /\ IsSubstring(PHONES_MARK, name)
    /\ IsSubstring(SplitFirst(name),
                   SplitExtRoot(Basename(x_args.a.textgrid_file_path)))

RECURSIVE ClaimedSpeakers(_)
ClaimedSpeakers(t) ==
    IF t > Len(x_args.grid) THEN <<>>
    ELSE (IF ClaimedTier(x_args.grid[t].name)
          THEN [j \in 1..Len(XPoints) |-> SplitFirst(x_args.grid[t].name)]
          ELSE <<>>)
         \o ClaimedSpeakers(t + 1)

C9_TiersResolvedAgainstBaseName ==
    XDone =>
        [j \in 1..Len(formant_list) |-> formant_list[j].val.speaker]
            = ClaimedSpeakers(1)

-----------------------------------------------------------------------------
(* csv.DictWriter *)

RECURSIVE JoinChars(_)
JoinChars(cs) == IF cs = <<>> THEN "" ELSE Head(cs) \o JoinChars(Tail(cs))

\* The text the csv writer puts in column k for record d: restval "" for a
\* missing key, "" for None, str() of anything else.
CsvCell(k, d) ==
    IF k \notin KeySet(d) THEN ""
    ELSE LET v == d.val[k]
         IN  CASE k \in {"file", "speaker"} -> JoinChars(v)
               [] k = "phone" -> v
               [] k \in {"preceding_phone", "following_phone"} ->
                     (IF v = Absent THEN "" ELSE v[1])
               [] OTHER -> (IF v = NaN THEN "nan" ELSE ToString(v))

SeqToSet(q) == {q[i] : i \in 1..Len(q)}

\* DictWriter._dict_to_list raises ValueError for a key not in fieldnames
\* (extrasaction="raise").
HasExtras(names, d) == KeySet(d) \ SeqToSet(names) # {}

DictToList(names, d) == [i \in 1..Len(names) |-> CsvCell(names[i], d)]

\* Number of rows writerows writes before it ends or raises.
RECURSIVE GoodPrefix(_, _)
GoodPrefix(names, data) ==
    IF data = <<>> \/ HasExtras(names, Head(data)) THEN 0
    ELSE 1 + GoodPrefix(names, Tail(data))

\* writer.writerows(data): rows, the records handed over, and whether it
\* returned without raising.
WriteRows(out, names, data) ==
    LET n == GoodPrefix(names, data)
        ok == n = Len(data)
    IN  [rows |-> [j \in 1..n |-> DictToList(names, data[j])],
         handed |-> [j \in 1..(IF ok THEN n ELSE n + 1) |->
                        [out |-> out, rec |-> data[j], ok |-> j <= n]],
         ok |-> ok]

-----------------------------------------------------------------------------
(* main *)

FILES_TO_EXCLUDE == {}

MAX_POINTS == 3

COMBINED_NAME == <<"f", "o", "r", "m", "a", "n", "t", "s", ".", "c", "s", "v">>

SpeakerFileName(speaker) == speaker \o <<"_">> \o COMBINED_NAME

\* {splitext(f)[0]: join(dir, f) for f in listdir if f.endswith(ext)}
FilesByBase(dir, names, ext) ==
    LET kept == {f \in names : EndsWith(f, ext)}
    IN  [b \in {SplitExtRoot(f) : f \in kept} |->
            PathJoin(dir, CHOOSE f \in kept : SplitExtRoot(f) = b)]

AudioFiles == FilesByBase("audio", fs.audio, WAV_EXT)
TextgridFiles == FilesByBase("textgrids", fs.textgrids, TEXTGRID_EXT)

MatchedFiles ==
    {f \in (DOMAIN AudioFiles) \cap (DOMAIN TextgridFiles) : f \notin FILES_TO_EXCLUDE}

\* extract_formants_from_file for matched file f, as main calls it
ExtractFile(f) ==
    ExtractFormantsFromFile(
        [audio_file_path |-> AudioFiles[f],
         textgrid_file_path |-> TextgridFiles[f],
         phones |-> args.phones,
         desired_formants |-> args.formants,
         points |-> args.points,
         include_following |-> args.following_phone],
        fs.grid[Basename(TextgridFiles[f])],
        fs.track,
        fs.vowels)

\* Speakers in the order of their first record
RECURSIVE SpeakersInOrder(_, _)
SpeakersInOrder(data, seen) ==
    IF data = <<>> THEN <<>>
    ELSE LET sp == Head(data).val.speaker
         IN  IF sp \in seen THEN SpeakersInOrder(Tail(data), seen)
             ELSE <<sp>> \o SpeakersInOrder(Tail(data), seen \cup {sp})

RECURSIVE RecordsOfSpeaker(_, _)
RecordsOfSpeaker(data, sp) ==
    IF data = <<>> THEN <<>>
    ELSE (IF Head(data).val.speaker = sp THEN <<Head(data)>> ELSE <<>>)
         \o RecordsOfSpeaker(Tail(data), sp)

\* open(output_file, "w") then writeheader and writerows
WriteTable(out, names, data) ==
    LET w == WriteRows(out, names, data)
    IN  [file |-> [header |-> Some(names), rows |-> w.rows],
         handed |-> w.handed,
         ok |-> w.ok]

\* Lines 179-207: create the output folder, check the points, list and match
\* the files.
Setup ==
    /\ pc = "start"
    /\ out_dir' = IF out_dir = "missing" THEN "created" ELSE out_dir
    /\ IF Len(args.points) > MAX_POINTS \/ MatchedFiles = {}
       THEN /\ pc' = "config_error"
            /\ UNCHANGED <<matched_files, pending>>
       ELSE /\ matched_files' = MatchedFiles
            /\ pending' = MatchedFiles
            /\ pc' = IF args.separate_files THEN "collect" ELSE "first"
    /\ UNCHANGED <<args, fs, out_files, processed, all_data, fieldnames,
                   handed, todo_speakers, xvars>>

\* Lines 211-223: one iteration of the loop over matched_files
CollectFile ==
    /\ pc = "collect"
    /\ \E f \in pending :
          /\ all_data' = all_data \o ExtractFile(f)
          /\ pending' = pending \ {f}
          /\ processed' = Append(processed, f)
          /\ pc' = IF pending' = {} THEN "group" ELSE "collect"
    /\ UNCHANGED <<args, fs, out_dir, out_files, matched_files, fieldnames,
                   handed, todo_speakers, xvars>>

\* Lines 225-235: group by speaker and take the fieldnames
GroupBySpeaker ==
    /\ pc = "group"
    /\ IF all_data = <<>>
       THEN /\ pc' = "done"
            /\ UNCHANGED <<fieldnames, todo_speakers>>
       ELSE /\ todo_speakers' = SpeakersInOrder(all_data, {})
            /\ fieldnames' = Some(all_data[1].keys)
            /\ pc' = "write"
    /\ UNCHANGED <<args, fs, out_dir, out_files, matched_files, pending,
                   processed, all_data, handed, xvars>>

\* Lines 236-246: one iteration of the loop over speaker_data
WriteSpeakerFile ==
    /\ pc = "write"
    /\ LET sp == Head(todo_speakers)
           out == SpeakerFileName(sp)
           w == WriteTable(out, fieldnames[1], RecordsOfSpeaker(all_data, sp))
       IN  /\ out_files' = (out :> w.file) @@ out_files
           /\ handed' = handed \o w.handed
           /\ todo_speakers' = Tail(todo_speakers)
           /\ pc' = IF ~w.ok THEN "write_error"
                    ELSE IF todo_speakers' = <<>> THEN "done" ELSE "write"
    /\ UNCHANGED <<args, fs, out_dir, matched_files, pending, processed,
                   all_data, fieldnames, xvars>>

\* Lines 249-270: open formants.csv, process the first file of the set and,
\* if it gave records, write the header and its rows
WriteFirstFile ==
    /\ pc = "first"
    /\ \E first_file \in matched_files :
          LET first_data == ExtractFile(first_file)
          IN  /\ processed' = Append(processed, first_file)
              /\ IF first_data = <<>>
                 THEN /\ out_files' = (COMBINED_NAME :> [header |-> Absent, rows |-> <<>>])
                                      @@ out_files
                      /\ pc' = "done"
                      /\ UNCHANGED <<fieldnames, handed, pending>>
                 ELSE LET names == first_data[1].keys
                          w == WriteTable(COMBINED_NAME, names, first_data)
                      IN  /\ fieldnames' = Some(names)
                          /\ out_files' = (COMBINED_NAME :> w.file) @@ out_files
                          /\ handed' = handed \o w.handed
                          /\ pending' = matched_files \ {first_file}
                          /\ pc' = IF ~w.ok THEN "write_error"
                                   ELSE IF pending' = {} THEN "done"
                                   ELSE "remaining"
    /\ UNCHANGED <<args, fs, out_dir, matched_files, all_data, todo_speakers,
                   xvars>>

\* Lines 274-286: one iteration of the loop over remaining_files
WriteRemainingFile ==
    /\ pc = "remaining"
    /\ \E f \in pending :
          LET w == WriteRows(COMBINED_NAME, fieldnames[1], ExtractFile(f))
              old == out_files[COMBINED_NAME]
          IN  /\ out_files' = (COMBINED_NAME :>
                                  [header |-> old.header, rows |-> old.rows \o w.rows])
                              @@ out_files
              /\ handed' = handed \o w.handed
              /\ pending' = pending \ {f}
              /\ processed' = Append(processed, f)
              /\ pc' = IF ~w.ok THEN "write_error"
                       ELSE IF pending' = {} THEN "done" ELSE "remaining"
    /\ UNCHANGED <<args, fs, out_dir, matched_files, all_data, fieldnames,
                   todo_speakers, xvars>>

JUNK_NAME == <<"n", "o", "t", "e", "s", ".", "t", "x", "t">>

\* The grid of every file holds a phones tier for speaker A and one for
\* speaker B with the same intervals; the file's name decides which resolve.
MainContents == {MakeTier(<<"a">>), MakeTier(<<"a", "t">>),
                 MakeTier(<<"t">>), MakeTier(<<"a", "a">>)}

MainGrid(c) == <<[name |-> TierName_A_phones, intervals |-> c],
                 [name |-> TierName_B_phones, intervals |-> c]>>

\* The needed arguments parsed; the directories hold any of the three
\* recordings and alignments, and a file of another kind.
Init ==
    /\ pc = "start"
    /\ \E po \in {<<1>>, <<0, 1, PointDen, 1>>}, fo \in {<<1>>, <<2, 1>>},
          fol \in BOOLEAN, sep \in BOOLEAN :
          args = [phones |-> {"a"}, formants |-> fo, points |-> po,
                  following_phone |-> fol, separate_files |-> sep]
    /\ \E au \in SUBSET BaseNames, tg \in SUBSET BaseNames :
          \E g \in [{b \o TEXTGRID_EXT : b \in tg} -> MainContents] :
             fs = [audio |-> {b \o WAV_EXT : b \in au} \cup {JUNK_NAME},
                   textgrids |-> {b \o TEXTGRID_EXT : b \in tg} \cup {JUNK_NAME},
                   grid |-> [n \in DOMAIN g |-> MainGrid(g[n])],
                   track |-> [base |-> 100, gaps |-> {}],
                   vowels |-> {"a"}]
    /\ out_dir \in {"missing", "preexisting"}
    /\ out_files = <<>>
    /\ matched_files = {}
    /\ pending = {}
    /\ processed = <<>>
    /\ all_data = <<>>
    /\ fieldnames = Absent
    /\ handed = <<>>
    /\ todo_speakers = <<>>
    /\ x_pc = "idle"
    /\ x_args = <<>>
    /\ formant_list = <<>>

Next ==
    \/ Setup
    \/ CollectFile
    \/ GroupBySpeaker
    \/ WriteSpeakerFile
    \/ WriteFirstFile
    \/ WriteRemainingFile


Spec == Init /\ [][Next]_vars

-----------------------------------------------------------------------------
(* Properties of main *)

Ended == pc \in {"done", "write_error"}

\* The header main writes to formants.csv when f is the first file.
HeaderIfFirst(f) ==
    LET d == ExtractFile(f) IN IF d = <<>> THEN Absent ELSE Some(d[1].keys)

RECURSIVE WrittenRecords(_, _, _)
WrittenRecords(hs, out, file) ==
    IF hs = <<>> THEN <<>>
    ELSE (IF Head(hs).ok /\ Head(hs).out = out /\ Head(hs).rec.val.file = file
          THEN <<Head(hs).rec>> ELSE <<>>)
         \o WrittenRecords(Tail(hs), out, file)

RECURSIVE WrittenTo(_, _)
WrittenTo(hs, out) ==
    IF hs = <<>> THEN <<>>
    ELSE (IF Head(hs).ok /\ Head(hs).out = out THEN <<Head(hs).rec>> ELSE <<>>)
         \o WrittenTo(Tail(hs), out)

\* C1: in combined mode the header of formants.csv is the one the run would
\* have written with any other matched file processed first.
C1_HeaderIndependentOfFirstFile ==
    (Ended /\ ~args.separate_files) =>
        \A f \in matched_files :
            out_files[COMBINED_NAME].header = HeaderIfFirst(f)

\* C2: in combined mode every record of every matched file is written,
\* whichever file was processed first.
C2_EveryRecordWritten ==
    (Ended /\ ~args.separate_files) =>
        \A f \in matched_files :
            WrittenRecords(handed, COMBINED_NAME, f) = ExtractFile(f)

\* C3: every record handed to a writer has exactly the header's columns.
C3_RecordsHaveHeaderColumns ==
    \A j \in 1..Len(handed) :
        KeySet(handed[j].rec) = SeqToSet(fieldnames[1])

\* C8: a configuration error ends the run with no file pair processed and
\* nothing written or created at the output destination.
C8_ConfigErrorBeforeAnyOutput ==
    pc = "config_error" =>
        /\ processed = <<>>
        /\ out_files = <<>>
        /\ out_dir # "created"

\* C10: in per-speaker mode, when the run has ended, there is one table per
\* speaker among the accumulated records and no other, and each table holds
\* exactly the records of its speaker, each once.
C10_OneTablePerSpeaker ==
    (Ended /\ args.separate_files) =>
        LET speakers == {all_data[j].val.speaker : j \in 1..Len(all_data)}
        IN  /\ DOMAIN out_files = {SpeakerFileName(sp) : sp \in speakers}
            /\ \A sp \in speakers :
                  WrittenTo(handed, SpeakerFileName(sp))
                      = RecordsOfSpeaker(all_data, sp)

====
